---- MODULE Spec2Model ----
(***************************************************************************)
(* ModelManager of src/model_manager.py: lazy load, tiered residency       *)
(* (unloaded / cached in RAM / on the accelerator) and TTL eviction of     *)
(* one whisper model, under worker threads calling acquire()/release()     *)
(* and a controller thread calling update_config(), maybe_unload() and     *)
(* force_unload().                                                         *)
(*                                                                         *)
(* Every `with self._lock:` block is two steps: taking the lock, and the   *)
(* body together with the unlock.  Work the code does outside the lock     *)
(* (whisper.load_model, model.to, _free_model, Event.wait) is a step of    *)
(* its own, so that every interleaving the lock allows is explored.        *)
(***************************************************************************)
EXTENDS Integers, FiniteSets, Sequences, TLC

\* ---------------------------------------------------------------- bounds
MaxLoads == 2
MaxIdle == 1
MaxSegments == 3

\* ------------------------------------------------------------- constants
CacheRatioNum == 3
CacheRatioDen == 2

Workers == {1, 2}
Handles == 1..MaxLoads
Names == {1, 2}
TTLs == {-1, 0, 1}
Sizes == {0, 2}
Avails == {2, 3}
\* lengths of the waveform and segment end times, in seconds
Totals == {0, 40}
Ends == {0, 1, 2, 20, 40, 41}

None == 0
NoName == 0
NoResult == 0
\* acquire() ended with the load's own exception (line 176) or with the
\* RuntimeError of lines 194 and 213
Raised == -1
Cancelled == -2
Free == 0
Gui == -1
Demoter == -2
\* what became of the load a waiting acquire() found in flight (history)
AttNone == 0
AttPending == -2
AttFailed == -1

VARIABLES
    \* ModelManager fields
    model_name, ttl_seconds, auto_cache_ram,
    lock, model, model_size_bytes, cached_cpu, active_jobs, idle_seconds,
    loading, loaded_event,
    \* environment
    nloads, freeq,
    \* the model name a constructed and the installed model were built for
    built_name, resident_name,
    \* worker threads inside acquire()/release()
    pc, model_ref, promoted, result, attempt,
    \* controller thread
    gpc, model_to_free, gret,
    \* background demotion thread
    dpc, model_to_cpu,
    \* the TranscribeWorker job running on thread Job
    jpc, acquired, exc, released,
    \* the signals the job has emitted
    finished_n, error_n, late,
    \* the locals of the segment loop of the job
    total_seconds, next_threshold, last_end, nsegs, emits,
    \* the window is closing
    closing

mgr == <<model_name, ttl_seconds, auto_cache_ram, lock, model, model_size_bytes,
         cached_cpu, active_jobs, idle_seconds, loading, loaded_event>>
env == <<nloads, freeq, built_name, resident_name>>
wrk == <<pc, model_ref, promoted, result, attempt>>
gui == <<gpc, model_to_free, gret>>
dem == <<dpc, model_to_cpu>>
sig == <<finished_n, error_n, late>>
prog == <<total_seconds, next_threshold, last_end, nsegs, emits>>
win == <<closing>>
job == <<jpc, acquired, exc, released, sig, prog, win>>
vars == <<mgr, env, wrk, gui, dem, job>>

\* ------------------------------------------------------------ helpers
Max(a, b) == IF a >= b THEN a ELSE b
Min(a, b) == IF a <= b THEN a ELSE b

\* threading.Event.set(): every thread blocked in wait() is released, also
\* when the flag is cleared again before that thread runs.
WakeAll(p) == [t \in Workers |-> IF p[t] = "blocked" THEN "recheck" ELSE p[t]]

\* A load (not a promotion or demotion) is the operation in flight.
LoadInFlight == \E u \in Workers : pc[u] \in {"load", "load_ok", "load_err"}

CanCacheInRam_IgnoresProbeFailure(cuda, probe_ok, available) ==
    /\ auto_cache_ram
    /\ cuda
    /\ model_size_bytes > 0
    /\ (probe_ok => available >= (model_size_bytes * CacheRatioNum) \div CacheRatioDen)

\* _can_cache_in_ram, for the probes' answers: cuda, the outcome of
\* psutil.virtual_memory() (probe_ok / available)
CanCacheInRam(cuda, probe_ok, available) ==
    /\ auto_cache_ram
    /\ cuda
    /\ model_size_bytes > 0
    /\ probe_ok
    /\ available >= (model_size_bytes * CacheRatioNum) \div CacheRatioDen

Init ==
    /\ model_name = 1
    /\ ttl_seconds \in TTLs
    /\ auto_cache_ram \in BOOLEAN
    /\ lock = Free
    /\ model = None
    /\ model_size_bytes = 0
    /\ cached_cpu = FALSE
    /\ active_jobs = 0
    /\ idle_seconds \in 0..MaxIdle
    /\ loading = FALSE
    /\ loaded_event = FALSE
    /\ nloads = 0
    /\ freeq = {}
    /\ built_name = NoName
    /\ resident_name = NoName
    /\ pc = [t \in Workers |-> "idle"]
    /\ model_ref = [t \in Workers |-> None]
    /\ promoted = [t \in Workers |-> FALSE]
    /\ result = [t \in Workers |-> NoResult]
    /\ attempt = [t \in Workers |-> AttNone]
    /\ gpc = "idle"
    /\ model_to_free = None
    /\ gret = "none"
    /\ dpc = "none"
    /\ model_to_cpu = None
    /\ jpc = "idle"
    /\ acquired = FALSE
    /\ exc = FALSE
    /\ released = 0
    /\ finished_n = 0
    /\ error_n = 0
    /\ late = FALSE
    /\ total_seconds = 0
    /\ next_threshold = 0
    /\ last_end = 0
    /\ nsegs = 0
    /\ emits = <<>>
    /\ closing = FALSE

\* time.monotonic() advances: idle_seconds is time.monotonic() - self._last_used
\* of line 239, counted up to MaxIdle
Tick ==
    /\ idle_seconds < MaxIdle
    /\ idle_seconds' = idle_seconds + 1
    /\ UNCHANGED <<model_name, ttl_seconds, auto_cache_ram, lock, model, model_size_bytes,
                   cached_cpu, active_jobs, loading, loaded_event, env, wrk, gui, dem, job>>

\* -------------------------------------------------------------- acquire()
\* Taking self._lock: the callers blocked on it are those whose step is not
\* enabled.
LockPcs == {"promote_fin", "load_ok", "load_err", "recheck", "promote2_fin"}

Lock(t) ==
    /\ pc[t] \in LockPcs
    /\ lock = Free
    /\ lock' = t
    /\ UNCHANGED <<model_name, ttl_seconds, auto_cache_ram, model, model_size_bytes,
                   cached_cpu, active_jobs, idle_seconds, loading, loaded_event,
                   env, wrk, gui, dem, job>>

\* line 135: a worker calls acquire() and takes the lock
Acquire_Call(t) ==
    /\ pc[t] = "idle"
    /\ lock = Free
    /\ lock' = t
    /\ pc' = [pc EXCEPT ![t] = "enter"]
    /\ result' = [result EXCEPT ![t] = NoResult]
    /\ UNCHANGED <<model_name, ttl_seconds, auto_cache_ram, model, model_size_bytes,
                   cached_cpu, active_jobs, idle_seconds, loading, loaded_event,
                   env, model_ref, promoted, attempt, gui, dem, job>>

MayStartLoad_IgnoresLoading == model = None

\* line 149: this call is the one that loads
MayStartLoad == model = None /\ ~loading

\* line 141: this call is the one that promotes the cached model
MayStartPromote_IgnoresLoading == TRUE

MayStartPromote == ~loading

\* lines 136-152, the first critical section
Acquire_Enter(t) ==
    /\ pc[t] = "enter"
    /\ lock = t
    /\ lock' = Free
    /\ active_jobs' = active_jobs + 1
    /\ idle_seconds' = 0
    /\ IF model # None /\ ~cached_cpu
       THEN \* line 147
            /\ pc' = [pc EXCEPT ![t] = "holding"]
            /\ result' = [result EXCEPT ![t] = model]
            /\ UNCHANGED <<loading, loaded_event, model_ref, attempt>>
       ELSE IF model # None /\ MayStartPromote
       THEN \* lines 142-145
            /\ loading' = TRUE
            /\ loaded_event' = FALSE
            /\ model_ref' = [model_ref EXCEPT ![t] = model]
            /\ pc' = [pc EXCEPT ![t] = "promote"]
            /\ UNCHANGED <<result, attempt>>
       ELSE IF MayStartLoad
       THEN \* lines 150-152
            /\ loading' = TRUE
            /\ loaded_event' = FALSE
            /\ pc' = [pc EXCEPT ![t] = "load"]
            /\ UNCHANGED <<model_ref, result, attempt>>
       ELSE \* nothing to do but wait for the operation in flight
            /\ pc' = [pc EXCEPT ![t] = "wait"]
            /\ attempt' = [attempt EXCEPT ![t] =
                              IF model = None /\ LoadInFlight THEN AttPending ELSE AttNone]
            /\ UNCHANGED <<loading, loaded_event, model_ref, result>>
    /\ UNCHANGED <<model_name, ttl_seconds, auto_cache_ram, model, model_size_bytes,
                   cached_cpu, env, promoted, gui, dem, job>>

\* lines 109-117, called at line 155 or 203 outside the lock: the transfer
\* succeeds only with cuda available and model.to("cuda") not raising
MoveModelToCuda(t, cuda, ok) ==
    /\ pc[t] \in {"promote", "promote2"}
    /\ promoted' = [promoted EXCEPT ![t] = cuda /\ ok]
    /\ pc' = [pc EXCEPT ![t] = IF pc[t] = "promote" THEN "promote_fin" ELSE "promote2_fin"]
    /\ UNCHANGED <<mgr, env, model_ref, result, attempt, gui, dem, job>>

CachedAfterPromote_KeepsFlag(t) == cached_cpu

CachedAfterPromote_AlwaysPrimary(t) == FALSE

CachedAfterPromote_Unguarded(t) == ~promoted[t]

\* lines 157-158 and 205-206
CachedAfterPromote(t) ==
    IF model = model_ref[t] THEN ~promoted[t] ELSE cached_cpu

\* lines 156-163, after the promotion started by the first critical section
Acquire_PromoteDone(t) ==
    /\ pc[t] = "promote_fin"
    /\ lock = t
    /\ lock' = Free
    /\ cached_cpu' = CachedAfterPromote(t)
    /\ loading' = FALSE
    /\ idle_seconds' = 0
    /\ loaded_event' = TRUE
    /\ IF model # None
       THEN /\ pc' = [WakeAll(pc) EXCEPT ![t] = "holding"]
            /\ result' = [result EXCEPT ![t] = model]
       ELSE \* falls through to line 187
            /\ pc' = [WakeAll(pc) EXCEPT ![t] = "wait"]
            /\ UNCHANGED result
    /\ model_ref' = [model_ref EXCEPT ![t] = None]
    /\ promoted' = [promoted EXCEPT ![t] = FALSE]
    /\ UNCHANGED <<model_name, ttl_seconds, auto_cache_ram, model, model_size_bytes,
                   active_jobs, env, attempt, gui, dem, job>>

\* lines 63-71: "cuda" when torch reports it available, "cpu" otherwise
PreferredDevice(cuda) == IF cuda THEN "cuda" ELSE "cpu"

\* lines 167-169, outside the lock: one call of whisper.load_model on the
\* preferred device, which returns a new model or raises
Construct(t, cuda, ok) ==
    /\ pc[t] = "load"
    /\ PreferredDevice(cuda) \in {"cuda", "cpu"}
    /\ IF ok
       THEN /\ nloads < MaxLoads
            /\ nloads' = nloads + 1
            /\ model_ref' = [model_ref EXCEPT ![t] = nloads + 1]
            /\ built_name' = model_name
            /\ pc' = [pc EXCEPT ![t] = "load_ok"]
       ELSE /\ pc' = [pc EXCEPT ![t] = "load_err"]
            /\ UNCHANGED <<nloads, model_ref, built_name>>
    /\ UNCHANGED <<mgr, freeq, resident_name, promoted, result, attempt, gui, dem, job>>

Decrement_Missing(n) == n

\* lines 173, 192, 211 and 219
Decrement(n) == Max(0, n - 1)

\* the history of the waiters of the load that ends now
Settle(a, outcome) == [u \in Workers |-> IF a[u] = AttPending THEN outcome ELSE a[u]]

Acquire_LoadFailed_StaysLoading(t) ==
    /\ pc[t] = "load_err"
    /\ lock = t
    /\ lock' = Free
    /\ active_jobs' = Decrement(active_jobs)
    /\ idle_seconds' = 0
    /\ pc' = [pc EXCEPT ![t] = "idle"]
    /\ result' = [result EXCEPT ![t] = Raised]
    /\ attempt' = Settle(attempt, AttFailed)
    /\ UNCHANGED <<model_name, ttl_seconds, auto_cache_ram, model, model_size_bytes,
                   cached_cpu, loading, loaded_event, env, model_ref, promoted, gui, dem, job>>

\* lines 171-176: the load failed
Acquire_LoadFailed(t) ==
    /\ pc[t] = "load_err"
    /\ lock = t
    /\ lock' = Free
    /\ loading' = FALSE
    /\ active_jobs' = Decrement(active_jobs)
    /\ idle_seconds' = 0
    /\ loaded_event' = TRUE
    /\ pc' = [WakeAll(pc) EXCEPT ![t] = "idle"]
    /\ result' = [result EXCEPT ![t] = Raised]
    /\ attempt' = Settle(attempt, AttFailed)
    /\ UNCHANGED <<model_name, ttl_seconds, auto_cache_ram, model, model_size_bytes,
                   cached_cpu, env, model_ref, promoted, gui, dem, job>>

\* lines 178-185: the load succeeded; size is what _estimate_model_bytes
\* measured at line 169 (0 when it failed)
Acquire_LoadDone(t, size) ==
    /\ pc[t] = "load_ok"
    /\ lock = t
    /\ lock' = Free
    /\ model' = model_ref[t]
    /\ model_size_bytes' = size
    /\ cached_cpu' = FALSE
    /\ loading' = FALSE
    /\ idle_seconds' = 0
    /\ loaded_event' = TRUE
    /\ pc' = [WakeAll(pc) EXCEPT ![t] = "holding"]
    /\ result' = [result EXCEPT ![t] = model_ref[t]]
    /\ model_ref' = [model_ref EXCEPT ![t] = None]
    /\ attempt' = Settle(attempt, model_ref[t])
    /\ resident_name' = built_name
    /\ built_name' = NoName
    /\ UNCHANGED <<model_name, ttl_seconds, auto_cache_ram, active_jobs,
                   nloads, freeq, promoted, gui, dem, job>>

\* line 187: self._loaded_event.wait()
Acquire_Wait(t) ==
    /\ pc[t] = "wait"
    /\ pc' = [pc EXCEPT ![t] = IF loaded_event THEN "recheck" ELSE "blocked"]
    /\ UNCHANGED <<mgr, env, model_ref, promoted, result, attempt, gui, dem, job>>

\* lines 190-200, the re-check after waking
Acquire_Recheck(t) ==
    /\ pc[t] = "recheck"
    /\ lock = t
    /\ lock' = Free
    /\ attempt' = [attempt EXCEPT ![t] = AttNone]
    /\ IF model = None
       THEN \* lines 192-194
            /\ active_jobs' = Decrement(active_jobs)
            /\ idle_seconds' = 0
            /\ pc' = [pc EXCEPT ![t] = "idle"]
            /\ result' = [result EXCEPT ![t] = Cancelled]
            /\ UNCHANGED <<loading, loaded_event, model_ref>>
       ELSE IF cached_cpu /\ ~loading
       THEN \* lines 196-198
            /\ loading' = TRUE
            /\ loaded_event' = FALSE
            /\ model_ref' = [model_ref EXCEPT ![t] = model]
            /\ pc' = [pc EXCEPT ![t] = "promote2"]
            /\ UNCHANGED <<active_jobs, idle_seconds, result>>
       ELSE \* line 200
            /\ pc' = [pc EXCEPT ![t] = "holding"]
            /\ result' = [result EXCEPT ![t] = model]
            /\ UNCHANGED <<active_jobs, idle_seconds, loading, loaded_event, model_ref>>
    /\ UNCHANGED <<model_name, ttl_seconds, auto_cache_ram, model, model_size_bytes,
                   cached_cpu, env, promoted, gui, dem, job>>

\* lines 204-214, after the promotion started by the re-check
Acquire_Promote2Done(t) ==
    /\ pc[t] = "promote2_fin"
    /\ lock = t
    /\ lock' = Free
    /\ cached_cpu' = CachedAfterPromote(t)
    /\ loading' = FALSE
    /\ loaded_event' = TRUE
    /\ idle_seconds' = 0
    /\ IF model = None
       THEN /\ active_jobs' = Decrement(active_jobs)
            /\ pc' = [WakeAll(pc) EXCEPT ![t] = "idle"]
            /\ result' = [result EXCEPT ![t] = Cancelled]
       ELSE /\ pc' = [WakeAll(pc) EXCEPT ![t] = "holding"]
            /\ result' = [result EXCEPT ![t] = model]
            /\ UNCHANGED active_jobs
    /\ model_ref' = [model_ref EXCEPT ![t] = None]
    /\ promoted' = [promoted EXCEPT ![t] = FALSE]
    /\ UNCHANGED <<model_name, ttl_seconds, auto_cache_ram, model, model_size_bytes,
                   env, attempt, gui, dem, job>>

\* -------------------------------------------------------------- release()
\* line 218: the holder of a handle calls release() and takes the lock
Release_Call(t) ==
    /\ pc[t] = "holding"
    /\ lock = Free
    /\ lock' = t
    /\ pc' = [pc EXCEPT ![t] = "release"]
    /\ UNCHANGED <<model_name, ttl_seconds, auto_cache_ram, model, model_size_bytes,
                   cached_cpu, active_jobs, idle_seconds, loading, loaded_event,
                   env, model_ref, promoted, result, attempt, gui, dem, job>>

\* lines 219-220
Release(t) ==
    /\ pc[t] = "release"
    /\ lock = t
    /\ lock' = Free
    /\ active_jobs' = Decrement(active_jobs)
    /\ idle_seconds' = 0
    /\ pc' = [pc EXCEPT ![t] = "idle"]
    /\ result' = [result EXCEPT ![t] = NoResult]
    /\ UNCHANGED <<model_name, ttl_seconds, auto_cache_ram, model, model_size_bytes,
                   cached_cpu, loading, loaded_event, env, model_ref, promoted, attempt,
                   gui, dem, job>>

\* -------------------------------------------------------- update_config()
\* line 40: the controller calls update_config() and takes the lock
UpdateConfig_Call ==
    /\ gpc = "idle"
    /\ lock = Free
    /\ lock' = Gui
    /\ gpc' = "update_config"
    /\ UNCHANGED <<model_name, ttl_seconds, auto_cache_ram, model, model_size_bytes,
                   cached_cpu, active_jobs, idle_seconds, loading, loaded_event,
                   env, wrk, model_to_free, gret, dem, job>>

DropsForName_AnyUpdate(name) == model # None

\* lines 41-47: a changed model name drops the resident model
DropsForName(name) == model_name # name /\ model # None

DropsForCache_AnyTier(name, cache) == ~cache /\ model # None /\ ~DropsForName(name)

\* line 52, evaluated after lines 41-50: switching the RAM cache off drops a
\* model that is cached in RAM
DropsForCache(name, cache) == ~cache /\ cached_cpu /\ model # None /\ ~DropsForName(name)

\* lines 41-61; the thread of lines 59-61 runs _free_model later (AsyncFree)
UpdateConfig(name, ttl, cache) ==
    /\ gpc = "update_config"
    /\ lock = Gui
    /\ lock' = Free
    /\ model_name' = name
    /\ ttl_seconds' = ttl
    /\ auto_cache_ram' = cache
    /\ IF DropsForName(name) \/ DropsForCache(name, cache)
       THEN /\ model' = None
            /\ cached_cpu' = FALSE
            /\ model_size_bytes' = 0
            /\ freeq' = freeq \cup {model}
            /\ resident_name' = NoName
       ELSE UNCHANGED <<model, cached_cpu, model_size_bytes, freeq, resident_name>>
    /\ gpc' = "idle"
    /\ gret' = "none"
    /\ UNCHANGED <<active_jobs, idle_seconds, loading, loaded_event, nloads, built_name,
                   wrk, model_to_free, dem, job>>

\* lines 119-127 on the thread started at lines 59-61
AsyncFree(h) ==
    /\ h \in freeq
    /\ freeq' = freeq \ {h}
    /\ UNCHANGED <<mgr, nloads, built_name, resident_name, wrk, gui, dem, job>>

\* --------------------------------------------------------- maybe_unload()
MaybeUnload_Call_Blocking ==
    /\ gpc = "idle"
    /\ lock = Free
    /\ lock' = Gui
    /\ gpc' = "maybe_unload"
    /\ UNCHANGED <<model_name, ttl_seconds, auto_cache_ram, model, model_size_bytes,
                   cached_cpu, active_jobs, idle_seconds, loading, loaded_event,
                   env, wrk, model_to_free, gret, dem, job>>

\* lines 224-226: the lock is tried, never waited for
MaybeUnload_Call ==
    /\ gpc = "idle"
    /\ IF lock = Free
       THEN /\ lock' = Gui
            /\ gpc' = "maybe_unload"
            /\ UNCHANGED gret
       ELSE /\ gret' = "False"
            /\ UNCHANGED <<lock, gpc>>
    /\ UNCHANGED <<model_name, ttl_seconds, auto_cache_ram, model, model_size_bytes,
                   cached_cpu, active_jobs, idle_seconds, loading, loaded_event,
                   env, wrk, model_to_free, dem, job>>

Unloadable_IgnoresTtl == model # None /\ ~loading

\* lines 232-237: the early returns
Unloadable == model # None /\ ~loading /\ ttl_seconds >= 0

IdleExpired_StrictlyOlder == active_jobs = 0 /\ idle_seconds > ttl_seconds

IdleExpired_IgnoresJobs == idle_seconds >= ttl_seconds

\* lines 239-240
IdleExpired == active_jobs = 0 /\ idle_seconds >= ttl_seconds

\* lines 232-275; cuda, probe_ok and available are what torch and psutil
\* answer inside _can_cache_in_ram
MaybeUnload(cuda, probe_ok, available) ==
    /\ gpc = "maybe_unload"
    /\ lock = Gui
    /\ lock' = Free
    /\ IF ~(Unloadable /\ IdleExpired)
       THEN \* lines 233, 235, 237, 275
            /\ gpc' = "idle"
            /\ gret' = "False"
            /\ UNCHANGED <<model, model_size_bytes, cached_cpu, loading, loaded_event,
                           model_to_free, dem, resident_name>>
       ELSE IF cached_cpu /\ CanCacheInRam(cuda, probe_ok, available)
       THEN \* line 242 not taken: the model stays cached in RAM
            /\ gpc' = "idle"
            /\ gret' = "False"
            /\ UNCHANGED <<model, model_size_bytes, cached_cpu, loading, loaded_event,
                           model_to_free, dem, resident_name>>
       ELSE IF ~cached_cpu /\ CanCacheInRam(cuda, probe_ok, available)
       THEN \* lines 249-254 and 263-269: demote on a background thread
            /\ loading' = TRUE
            /\ loaded_event' = FALSE
            /\ cached_cpu' = TRUE
            /\ model_to_cpu' = model
            /\ dpc' = "move"
            /\ gpc' = "idle"
            /\ gret' = "True"
            /\ UNCHANGED <<model, model_size_bytes, model_to_free, resident_name>>
       ELSE \* lines 243-246 and 256-259: evict
            /\ model_to_free' = model
            /\ model' = None
            /\ cached_cpu' = FALSE
            /\ model_size_bytes' = 0
            /\ resident_name' = NoName
            /\ gpc' = "free_model"
            /\ UNCHANGED <<loading, loaded_event, gret, dem>>
    /\ UNCHANGED <<model_name, ttl_seconds, auto_cache_ram, active_jobs, idle_seconds,
                   nloads, freeq, built_name, wrk, job>>

\* lines 271-273 and 294-295: _free_model outside the lock, then return True
FreeModel ==
    /\ gpc = "free_model"
    /\ model_to_free' = None
    /\ gpc' = "idle"
    /\ gret' = IF gret = "force" THEN "none" ELSE "True"
    /\ UNCHANGED <<mgr, env, wrk, dem, job>>

\* lines 277-279: model.to("cpu") on the background thread
MoveModelToCpu ==
    /\ dpc = "move"
    /\ dpc' = "fin"
    /\ UNCHANGED <<mgr, env, wrk, gui, model_to_cpu, job>>

\* line 280
Demote_Lock ==
    /\ dpc = "fin"
    /\ lock = Free
    /\ lock' = Demoter
    /\ UNCHANGED <<model_name, ttl_seconds, auto_cache_ram, model, model_size_bytes,
                   cached_cpu, active_jobs, idle_seconds, loading, loaded_event,
                   env, wrk, gui, dem, job>>

FinishDemoteToCpu_NoSet ==
    /\ dpc = "fin"
    /\ lock = Demoter
    /\ lock' = Free
    /\ loading' = FALSE
    /\ dpc' = "none"
    /\ model_to_cpu' = None
    /\ UNCHANGED <<model_name, ttl_seconds, auto_cache_ram, model, model_size_bytes,
                   cached_cpu, active_jobs, idle_seconds, loaded_event, env, wrk,
                   gui, job>>

\* lines 281-282
FinishDemoteToCpu ==
    /\ dpc = "fin"
    /\ lock = Demoter
    /\ lock' = Free
    /\ loading' = FALSE
    /\ loaded_event' = TRUE
    /\ pc' = WakeAll(pc)
    /\ dpc' = "none"
    /\ model_to_cpu' = None
    /\ UNCHANGED <<model_name, ttl_seconds, auto_cache_ram, model, model_size_bytes,
                   cached_cpu, active_jobs, idle_seconds, env, model_ref, promoted,
                   result, attempt, gui, job>>

\* --------------------------------------------------------- force_unload()
\* line 286
ForceUnload_Call ==
    /\ gpc = "idle"
    /\ lock = Free
    /\ lock' = Gui
    /\ gpc' = "force_unload"
    /\ gret' = "force"
    /\ UNCHANGED <<model_name, ttl_seconds, auto_cache_ram, model, model_size_bytes,
                   cached_cpu, active_jobs, idle_seconds, loading, loaded_event,
                   env, wrk, model_to_free, dem, job>>

ForceUnload_SparesBorrowed ==
    /\ gpc = "force_unload"
    /\ lock = Gui
    /\ lock' = Free
    /\ IF model = None \/ active_jobs > 0
       THEN /\ gpc' = "idle"
            /\ gret' = "none"
            /\ UNCHANGED <<model, cached_cpu, model_size_bytes, model_to_free, resident_name>>
       ELSE /\ model_to_free' = model
            /\ resident_name' = NoName
            /\ model' = None
            /\ cached_cpu' = FALSE
            /\ model_size_bytes' = 0
            /\ gpc' = "free_model"
            /\ UNCHANGED gret
    /\ UNCHANGED <<model_name, ttl_seconds, auto_cache_ram, active_jobs, idle_seconds,
                   loading, loaded_event, nloads, freeq, built_name, wrk, dem, job>>

ForceUnload_KeepsLock ==
    /\ gpc = "force_unload"
    /\ lock = Gui
    /\ lock' = Gui
    /\ IF model = None
       THEN /\ gpc' = "idle"
            /\ gret' = "none"
            /\ UNCHANGED <<model, cached_cpu, model_size_bytes, model_to_free, resident_name>>
       ELSE /\ model_to_free' = model
            /\ resident_name' = NoName
            /\ model' = None
            /\ cached_cpu' = FALSE
            /\ model_size_bytes' = 0
            /\ gpc' = "free_model"
            /\ UNCHANGED gret
    /\ UNCHANGED <<model_name, ttl_seconds, auto_cache_ram, active_jobs, idle_seconds,
                   loading, loaded_event, nloads, freeq, built_name, wrk, dem, job>>

\* lines 287-292
ForceUnload ==
    /\ gpc = "force_unload"
    /\ lock = Gui
    /\ lock' = Free
    /\ IF model = None
       THEN /\ gpc' = "idle"
            /\ gret' = "none"
            /\ UNCHANGED <<model, cached_cpu, model_size_bytes, model_to_free, resident_name>>
       ELSE /\ model_to_free' = model
            /\ resident_name' = NoName
            /\ model' = None
            /\ cached_cpu' = FALSE
            /\ model_size_bytes' = 0
            /\ gpc' = "free_model"
            /\ UNCHANGED gret
    /\ UNCHANGED <<model_name, ttl_seconds, auto_cache_ram, active_jobs, idle_seconds,
                   loading, loaded_event, nloads, freeq, built_name, wrk, dem, job>>

\* ------------------------------------------------------------------ Spec
WorkerStep(t) ==
    \/ Acquire_Call(t)
    \/ Acquire_Enter(t)
    \/ Lock(t)
    \/ \E cuda \in BOOLEAN, ok \in BOOLEAN : MoveModelToCuda(t, cuda, ok)
    \/ Acquire_PromoteDone(t)
    \/ \E cuda \in BOOLEAN, ok \in BOOLEAN : Construct(t, cuda, ok)
    \/ Acquire_LoadFailed(t)
    \/ \E size \in Sizes : Acquire_LoadDone(t, size)
    \/ Acquire_Wait(t)
    \/ Acquire_Recheck(t)
    \/ Acquire_Promote2Done(t)
    \/ Release_Call(t)
    \/ Release(t)

ControllerStep ==
    \/ UpdateConfig_Call
    \/ \E name \in Names, ttl \in TTLs, cache \in BOOLEAN : UpdateConfig(name, ttl, cache)
    \/ MaybeUnload_Call
    \/ \E cuda \in BOOLEAN, probe_ok \in BOOLEAN, available \in Avails :
           MaybeUnload(cuda, probe_ok, available)
    \/ ForceUnload_Call
    \/ ForceUnload
    \/ FreeModel

BackgroundStep ==
    \/ \E h \in Handles : AsyncFree(h)
    \/ MoveModelToCpu
    \/ Demote_Lock
    \/ FinishDemoteToCpu

Next ==
    \/ Tick
    \/ \E t \in Workers : WorkerStep(t)
    \/ ControllerStep
    \/ BackgroundStep

Spec == Init /\ [][Next]_vars

\* acquire()/release() callers alone, on a manager nothing else touches
AcquireStep(t) ==
    \/ Acquire_Call(t)
    \/ Acquire_Enter(t)
    \/ Lock(t)
    \/ \E cuda \in BOOLEAN, ok \in BOOLEAN : Construct(t, cuda, ok)
    \/ Acquire_LoadFailed(t)
    \/ \E size \in Sizes : Acquire_LoadDone(t, size)
    \/ Acquire_Wait(t)
    \/ Acquire_Recheck(t)
    \/ Release_Call(t)
    \/ Release(t)

NextAcquire ==
    \/ Tick
    \/ \E t \in Workers : AcquireStep(t)

SpecAcquire == Init /\ [][NextAcquire]_vars

\* acquire()/release() callers and a settings dialog that calls
\* update_config(), with the freeing threads it starts
NextReconfigure ==
    \/ Tick
    \/ \E t \in Workers : AcquireStep(t)
    \/ UpdateConfig_Call
    \/ \E name \in Names, ttl \in TTLs, cache \in BOOLEAN : UpdateConfig(name, ttl, cache)
    \/ \E h \in Handles : AsyncFree(h)

SpecReconfigure == Init /\ [][NextReconfigure]_vars

\* ------------------------------------------------- TranscribeWorker.run()
\* the thread that runs the job; its acquire()/release() calls are the
\* manager actions of this thread
Job == 1

\* self.progress.emit(...): a progress signal after a terminal one is noted
EmitProgress == late' = (late \/ finished_n + error_n > 0)

\* line 125: int(min(100, (end_sec / total_seconds) * 100))
Percent(end, total) == Min(100, (end * 100) \div total)

\* line 129: min(100, (int(percent / 5) + 1) * 5)
NextThreshold(percent) == Min(100, ((percent \div 5) + 1) * 5)

\* the window starts the next job (it is busy from here until the job's
\* terminal signal has been handled); run() lines 47-53 and 61, with the
\* progress signal of line 53 or of line 61
Job_Start(with_audio) ==
    /\ jpc = "idle"
    /\ jpc' = IF with_audio THEN "acquire" ELSE "extract"
    /\ EmitProgress
    /\ UNCHANGED <<acquired, exc, released, finished_n, error_n, prog,
                   mgr, env, wrk, gui, dem, win>>

\* lines 57-61: extract_audio_array returns the waveform, and line 61 emits
\* progress, or it raises and the handler of lines 158-162 emits error
Job_Extract(ok) ==
    /\ jpc = "extract"
    /\ IF ok
       THEN /\ jpc' = "acquire"
            /\ EmitProgress
            /\ UNCHANGED error_n
       ELSE /\ jpc' = "failed"
            /\ error_n' = error_n + 1
            /\ UNCHANGED late
    /\ UNCHANGED <<acquired, exc, released, finished_n, prog, mgr, env, wrk, gui, dem, win>>

\* line 62: the call of model_manager.acquire()
Job_AcquireCall ==
    /\ jpc = "acquire"
    /\ result[Job] = NoResult
    /\ Acquire_Call(Job)

\* line 62: acquire() has returned the model
Job_Acquired ==
    /\ jpc = "acquire"
    /\ pc[Job] = "holding"
    /\ jpc' = "transcribe"
    /\ acquired' = TRUE
    /\ UNCHANGED <<exc, released, sig, prog, mgr, env, wrk, gui, dem, win>>

Job_AcquireRaised_Silent ==
    /\ jpc = "acquire"
    /\ pc[Job] = "idle"
    /\ result[Job] \in {Raised, Cancelled}
    /\ jpc' = "failed"
    /\ UNCHANGED <<acquired, exc, released, sig, prog, mgr, env, wrk, gui, dem, win>>

\* line 62 raised: the handler of lines 158-162 emits error
Job_AcquireRaised ==
    /\ jpc = "acquire"
    /\ pc[Job] = "idle"
    /\ result[Job] \in {Raised, Cancelled}
    /\ jpc' = "failed"
    /\ error_n' = error_n + 1
    /\ UNCHANGED <<acquired, exc, released, finished_n, late, prog,
                   mgr, env, wrk, gui, dem, win>>

Job_Transcribe_NoFinally(ok) ==
    /\ jpc = "transcribe"
    /\ jpc' = IF ok THEN "finally" ELSE "failed"
    /\ exc' = ~ok
    /\ error_n' = IF ok THEN error_n ELSE error_n + 1
    /\ UNCHANGED <<acquired, released, finished_n, late, prog, mgr, env, wrk, gui, dem, win>>

\* lines 64-94, the body of the try: model.transcribe returns the segment
\* stream or something raises; either way control goes to the finally
Job_Transcribe(ok) ==
    /\ jpc = "transcribe"
    /\ jpc' = "finally"
    /\ exc' = ~ok
    /\ UNCHANGED <<acquired, released, sig, prog, mgr, env, wrk, gui, dem, win>>

\* line 96: the call of model_manager.release()
Job_ReleaseCall ==
    /\ jpc = "finally"
    /\ Release_Call(Job)

\* line 96: release() has returned; a pending exception goes on to the
\* handler of lines 158-162, which emits error; otherwise the job goes on
\* with lines 98-107, total_seconds being the length of the waveform
Job_Released(total) ==
    /\ jpc = "finally"
    /\ pc[Job] = "idle"
    /\ released' = released + 1
    /\ IF exc
       THEN /\ jpc' = "failed"
            /\ error_n' = error_n + 1
            /\ UNCHANGED prog
       ELSE /\ jpc' = "collect"
            /\ total_seconds' = total
            /\ next_threshold' = 0
            /\ UNCHANGED <<error_n, last_end, nsegs, emits>>
    /\ UNCHANGED <<acquired, exc, finished_n, late, mgr, env, wrk, gui, dem, win>>

\* lines 108-129: one more segment comes out of the stream returned by
\* model.transcribe, segments coming in time order
Job_Segment(end) ==
    /\ jpc = "collect"
    /\ nsegs < MaxSegments
    /\ end >= last_end
    /\ nsegs' = nsegs + 1
    /\ last_end' = end
    /\ IF total_seconds > 0 /\ Percent(end, total_seconds) >= next_threshold
       THEN /\ emits' = Append(emits, Percent(end, total_seconds))
            /\ EmitProgress
            /\ next_threshold' = NextThreshold(Percent(end, total_seconds))
       ELSE UNCHANGED <<emits, late, next_threshold>>
    /\ UNCHANGED <<jpc, acquired, exc, released, finished_n, error_n, total_seconds,
                   mgr, env, wrk, gui, dem, win>>

\* the stream ends and lines 131-157 emit finished, or something in lines
\* 98-157 raises and the handler of lines 158-162 emits error; the locals
\* of run() are gone
Job_Collect(ok) ==
    /\ jpc = "collect"
    /\ jpc' = IF ok THEN "finished" ELSE "failed"
    /\ finished_n' = IF ok THEN finished_n + 1 ELSE finished_n
    /\ error_n' = IF ok THEN error_n ELSE error_n + 1
    /\ total_seconds' = 0
    /\ next_threshold' = 0
    /\ last_end' = 0
    /\ nsegs' = 0
    /\ emits' = <<>>
    /\ UNCHANGED <<acquired, exc, released, late, mgr, env, wrk, gui, dem, win>>

\* the window handles the terminal signal and is idle again
Job_Done ==
    /\ jpc \in {"finished", "failed"}
    /\ jpc' = "idle"
    /\ acquired' = FALSE
    /\ exc' = FALSE
    /\ released' = 0
    /\ finished_n' = 0
    /\ error_n' = 0
    /\ late' = FALSE
    /\ result' = [result EXCEPT ![Job] = NoResult]
    /\ UNCHANGED <<prog, mgr, env, pc, model_ref, promoted, attempt, gui, dem, win>>

\* the idle timer of the window calls maybe_unload() only when no job runs
Job_Sweep ==
    /\ jpc = "idle"
    /\ MaybeUnload_Call

\* one job at a time on thread Job, and the idle timer of the window
NextWorker ==
    \/ Tick
    \/ \E with_audio \in BOOLEAN : Job_Start(with_audio)
    \/ \E ok \in BOOLEAN : Job_Extract(ok)
    \/ Job_AcquireCall
    \/ Acquire_Enter(Job)
    \/ Lock(Job)
    \/ \E cuda \in BOOLEAN, ok \in BOOLEAN : MoveModelToCuda(Job, cuda, ok)
    \/ Acquire_PromoteDone(Job)
    \/ \E cuda \in BOOLEAN, ok \in BOOLEAN : Construct(Job, cuda, ok)
    \/ Acquire_LoadFailed(Job)
    \/ \E size \in Sizes : Acquire_LoadDone(Job, size)
    \/ Acquire_Wait(Job)
    \/ Acquire_Recheck(Job)
    \/ Acquire_Promote2Done(Job)
    \/ Job_Acquired
    \/ Job_AcquireRaised
    \/ \E ok \in BOOLEAN : Job_Transcribe(ok)
    \/ Job_ReleaseCall
    \/ Release(Job)
    \/ \E total \in Totals : Job_Released(total)
    \/ \E end \in Ends : Job_Segment(end)
    \/ \E ok \in BOOLEAN : Job_Collect(ok)
    \/ Job_Done
    \/ Job_Sweep
    \/ \E cuda \in BOOLEAN, probe_ok \in BOOLEAN, available \in Avails :
           MaybeUnload(cuda, probe_ok, available)
    \/ FreeModel
    \/ MoveModelToCpu
    \/ Demote_Lock
    \/ FinishDemoteToCpu

SpecWorker == Init /\ [][NextWorker]_vars

\* closeEvent of the window: it calls force_unload(), whose line 286 takes
\* the lock
Window_Close ==
    /\ ~closing
    /\ closing' = TRUE
    /\ gpc = "idle"
    /\ lock = Free
    /\ lock' = Gui
    /\ gpc' = "force_unload"
    /\ gret' = "force"
    /\ UNCHANGED <<model_name, ttl_seconds, auto_cache_ram, model, model_size_bytes,
                   cached_cpu, active_jobs, idle_seconds, loading, loaded_event,
                   env, wrk, model_to_free, dem, jpc, acquired, exc, released, sig, prog>>

\* no acquire() is started once the window is closing
Shutdown_AcquireCall(t) ==
    /\ ~closing
    /\ Acquire_Call(t)

\* acquire()/release() callers until the window closes with force_unload()
NextShutdown ==
    \/ Tick
    \/ \E t \in Workers : Shutdown_AcquireCall(t)
    \/ \E t \in Workers : Acquire_Enter(t)
    \/ \E t \in Workers : Lock(t)
    \/ \E t \in Workers, cuda \in BOOLEAN, ok \in BOOLEAN : Construct(t, cuda, ok)
    \/ \E t \in Workers : Acquire_LoadFailed(t)
    \/ \E t \in Workers, size \in Sizes : Acquire_LoadDone(t, size)
    \/ \E t \in Workers : Acquire_Wait(t)
    \/ \E t \in Workers : Acquire_Recheck(t)
    \/ \E t \in Workers : Release_Call(t)
    \/ \E t \in Workers : Release(t)
    \/ Window_Close
    \/ ForceUnload
    \/ FreeModel

SpecShutdown == Init /\ [][NextShutdown]_vars

\* ------------------------------------------------------------ scheduling
\* The steps a thread inside acquire() or release() takes by itself once it
\* runs: the critical sections it has entered and the work outside the lock
\* (whisper.load_model and model.to("cuda") return or raise).
Proceed(t) ==
    \/ Acquire_Enter(t)
    \/ \E cuda \in BOOLEAN, ok \in BOOLEAN : MoveModelToCuda(t, cuda, ok)
    \/ Acquire_PromoteDone(t)
    \/ \E cuda \in BOOLEAN, ok \in BOOLEAN : Construct(t, cuda, ok)
    \/ Acquire_LoadFailed(t)
    \/ \E size \in Sizes : Acquire_LoadDone(t, size)
    \/ Acquire_Wait(t)
    \/ Acquire_Recheck(t)
    \/ Acquire_Promote2Done(t)
    \/ Release(t)

\* The critical sections of update_config(), maybe_unload() and
\* force_unload(), which run to their end once the lock is held.
ControllerBody ==
    \/ \E name \in Names, ttl \in TTLs, cache \in BOOLEAN : UpdateConfig(name, ttl, cache)
    \/ \E cuda \in BOOLEAN, probe_ok \in BOOLEAN, available \in Avails :
           MaybeUnload(cuda, probe_ok, available)
    \/ ForceUnload

\* The demotion thread of lines 264-268 outside and inside the lock.
DemoterBody == MoveModelToCpu \/ FinishDemoteToCpu

\* Every started thread keeps running, and a thread that waits for
\* self._lock gets it when it is released again and again. Calls of
\* acquire(), release(), update_config(), maybe_unload() and force_unload()
\* are the callers' choice and are not forced.
Fairness ==
    /\ \A t \in Workers : WF_vars(Proceed(t)) /\ SF_vars(Lock(t))
    /\ WF_vars(ControllerBody)
    /\ WF_vars(DemoterBody)
    /\ SF_vars(Demote_Lock)

\* acquire()/release() callers, the controller's update_config(),
\* maybe_unload() and force_unload() calls and the demotion thread, with an
\* update_config() that changes the RAM cache setting alone
NextFair ==
    \/ \E t \in Workers : WorkerStep(t)
    \/ UpdateConfig_Call
    \/ \E cache \in BOOLEAN : UpdateConfig(model_name, ttl_seconds, cache)
    \/ MaybeUnload_Call
    \/ \E cuda \in BOOLEAN, probe_ok \in BOOLEAN, available \in Avails :
           MaybeUnload(cuda, probe_ok, available)
    \/ ForceUnload_Call
    \/ ForceUnload
    \/ FreeModel
    \/ MoveModelToCpu
    \/ Demote_Lock
    \/ FinishDemoteToCpu

FairSpec == Init /\ [][NextFair]_vars /\ Fairness

TypeOK ==
    /\ model \in Handles \cup {None}
    /\ lock \in Workers \cup {Free, Gui, Demoter}
    /\ active_jobs \in 0..Cardinality(Workers)
    /\ idle_seconds \in 0..MaxIdle
    /\ freeq \subseteq Handles
    /\ dpc # "none" => loading

\* ================================================================ claims
\* C1: at most one model construction (whisper.load_model call) is in
\* flight at any time, whatever the threads do.
C1_OneConstructionInFlight ==
    Cardinality({t \in Workers : pc[t] = "load"}) <= 1

\* C1 witness: a construction is in flight on one thread while another
\* acquire() waits for it, after an earlier construction
C1_Witness ==
    \E t, u \in Workers : pc[t] = "load" /\ pc[u] = "blocked" /\ nloads >= 1

\* the acquire() calls that have incremented active_jobs and have neither
\* raised nor been released
Counted == {t \in Workers : pc[t] \notin {"idle", "enter"}}

\* acquire() calls that returned a handle not yet released
Returned == {t \in Workers : pc[t] \in {"holding", "release"}}

\* C2 (as stated): active_jobs is never negative and equals completed
\* acquire() calls minus completed release() calls.
C2_Original ==
    active_jobs >= 0 /\ active_jobs = Cardinality(Returned)

\* C2 (amended): active_jobs is never negative and equals the acquire()
\* calls that passed their first critical section and did not raise, in
\* flight or returned, minus the completed release() calls.
C2_ActiveJobsCount ==
    active_jobs >= 0 /\ active_jobs = Cardinality(Counted)

\* C2 witness: one call has returned its handle, another is still inside
\* acquire(), and both are counted
C2_Witness ==
    \E t, u \in Workers :
        pc[t] = "holding" /\ pc[u] \in {"load", "recheck"} /\ active_jobs = 2

\* C3 (checked under SpecAcquire, acquire()/release() callers alone):
\* every acquire() that found a load in flight observes the outcome of
\* that load: it raises if the load failed, and returns the load's handle if
\* it succeeded.
C3_SameOutcome ==
    [][\A t \in Workers :
          (pc[t] = "recheck" /\ lock = t /\ pc'[t] # "recheck") =>
              /\ attempt[t] = AttFailed => result'[t] \in {Raised, Cancelled}
              /\ attempt[t] \in Handles => result'[t] = attempt[t]]_vars

\* C4: when a construction fails inside acquire(), the manager is Unloaded
\* with loading = false, the waiters are signalled and the failed call's
\* increment of active_jobs is undone; an acquire() that then enters the
\* Unloaded, idle manager starts a fresh construction.
C4_FailedLoadResets ==
    [][\A t \in Workers :
          /\ (pc[t] = "load_err" /\ lock = t /\ pc'[t] # "load_err") =>
                 /\ model' = None /\ ~cached_cpu' /\ model_size_bytes' = 0
                 /\ ~loading' /\ loaded_event'
                 /\ active_jobs' = active_jobs - 1
                 /\ result'[t] = Raised
                 /\ \A u \in Workers : pc'[u] # "blocked"
          /\ (pc[t] = "enter" /\ lock = t /\ pc'[t] # "enter"
                  /\ model = None /\ ~loading) =>
                 pc'[t] = "load" /\ loading']_vars

\* C4 witness: a call whose construction failed has raised, and a later
\* construction on the same manager has succeeded and is being installed
C4_Witness ==
    \E t, u \in Workers :
        /\ result[t] = Raised /\ pc[t] = "idle"
        /\ pc[u] = "load_ok" /\ lock = u /\ model = None /\ loading

\* what maybe_unload() must leave alone when it declines
DeclinesUnchanged ==
    /\ gret' = "False"
    /\ gpc' = "idle"
    /\ dpc' = dpc
    /\ UNCHANGED <<model, cached_cpu, model_size_bytes, active_jobs, loading, loaded_event>>

\* C5: maybe_unload() never waits.  A controller that is not inside another
\* call can always take its first step, and inside its critical section it
\* can always finish; with the lock held by another thread it returns False
\* at once, and with loading set, active_jobs > 0 or the idle time below
\* the timeout it returns False from the critical section; in each case
\* the handle, the tier, active_jobs and loading are unchanged.
C5_MaybeUnloadNeverWaits ==
    /\ [](gpc = "idle" => ENABLED MaybeUnload_Call)
    /\ [](gpc = "maybe_unload" =>
             ENABLED (\E cuda \in BOOLEAN, probe_ok \in BOOLEAN, available \in Avails :
                          MaybeUnload(cuda, probe_ok, available)))
    /\ [][/\ (MaybeUnload_Call /\ lock # Free) => DeclinesUnchanged
          /\ \A cuda \in BOOLEAN, probe_ok \in BOOLEAN, available \in Avails :
                (/\ MaybeUnload(cuda, probe_ok, available)
                 /\ (loading \/ active_jobs > 0 \/ idle_seconds < ttl_seconds)) =>
                    DeclinesUnchanged]_vars

\* C5 witness: maybe_unload() is in its critical section while a load is in
\* progress on a worker thread
C5_Witness ==
    \E t \in Workers :
        gpc = "maybe_unload" /\ lock = Gui /\ pc[t] = "load" /\ loading /\ active_jobs > 0

\* the manager gives up its resident handle (it is handed to _free_model)
\* or starts moving it to the CPU
TeardownStarts ==
    model # None /\ (model' # model \/ (~cached_cpu /\ cached_cpu'))

\* C6 (as stated): no operation of the manager starts a teardown or a tier
\* transfer of the resident handle while active_jobs > 0.
C6_Original ==
    [][TeardownStarts => active_jobs = 0]_vars

\* C6 (amended): maybe_unload() starts no teardown and no demotion of the
\* resident handle while active_jobs > 0; update_config() and force_unload()
\* are the only operations that drop a handle a caller still holds.
C6_MaybeUnloadSparesBorrowed ==
    [][/\ (TeardownStarts /\ gpc = "maybe_unload") => active_jobs = 0
       /\ (TeardownStarts /\ active_jobs > 0) => gpc \in {"update_config", "force_unload"}]_vars

\* C6 witness: maybe_unload() runs its critical section on a resident model
\* that is past its timeout while a caller holds the handle
C6_Witness ==
    \E t \in Workers :
        /\ gpc = "maybe_unload" /\ lock = Gui
        /\ pc[t] = "holding" /\ result[t] = model /\ model # None
        /\ ~loading /\ ttl_seconds >= 0 /\ idle_seconds >= ttl_seconds

\* C7: acquire() returns a handle only when no load, promotion or demotion
\* is in flight.
C7_ReturnsOnlyWhenSettled ==
    [][\A t \in Workers : (pc[t] # "holding" /\ pc'[t] = "holding") => ~loading']_vars

\* C8: with timeout -1, no maybe_unload() call frees or demotes the model,
\* however long it has been idle.
C8_NeverEvicts ==
    [][(ttl_seconds = -1 /\ gpc = "maybe_unload" /\ lock = Gui /\ gpc' # "maybe_unload") =>
           DeclinesUnchanged]_vars

\* C8 witness: maybe_unload() runs its critical section with timeout -1 on a
\* loaded model that nobody uses and that has been idle as long as can be
C8_Witness ==
    /\ gpc = "maybe_unload" /\ lock = Gui
    /\ ttl_seconds = -1 /\ model # None /\ ~loading
    /\ active_jobs = 0 /\ idle_seconds = MaxIdle

\* RAM caching is feasible: the cache flag is on, cuda is there, the model's
\* footprint is known, the free-memory probe answers, and it reports at
\* least 1.5 times the footprint
Feasible(cuda, probe_ok, available) ==
    /\ auto_cache_ram /\ cuda /\ probe_ok
    /\ model_size_bytes > 0
    /\ available >= (model_size_bytes * CacheRatioNum) \div CacheRatioDen

\* the resource is resident on the accelerator, idle past its timeout, with
\* nothing in flight and nobody using it
IdlePrimary ==
    /\ model # None /\ ~cached_cpu /\ ~loading
    /\ active_jobs = 0
    /\ ttl_seconds >= 0 /\ idle_seconds >= ttl_seconds

\* the critical section of maybe_unload() evicts, and True is returned once
\* _free_model has run
EvictsAndReturnsTrue(cuda, probe_ok, available) ==
    /\ (MaybeUnload(cuda, probe_ok, available) /\ IdlePrimary
            /\ ~Feasible(cuda, probe_ok, available)) =>
           /\ model' = None /\ ~cached_cpu' /\ model_size_bytes' = 0
           /\ model_to_free' = model /\ gpc' = "free_model"
           /\ ~loading' /\ dpc' = dpc
    /\ (FreeModel /\ gret # "force") => (gret' = "True" /\ gpc' = "idle" /\ model' = model)

\* C9 (as stated): on an idle Primary resource past its timeout with RAM
\* caching not feasible, the next maybe_unload() call evicts to Unloaded and
\* returns True.
C9_Original ==
    [][\A cuda \in BOOLEAN, probe_ok \in BOOLEAN, available \in Avails :
          /\ (MaybeUnload_Call /\ IdlePrimary) => gpc' = "maybe_unload"
          /\ EvictsAndReturnsTrue(cuda, probe_ok, available)]_vars

\* C9 (amended): the same, provided the lock is free when maybe_unload()
\* tries it; with the lock held by another thread the call returns False and
\* evicts nothing.
C9_EvictsWhenNotFeasible ==
    [][\A cuda \in BOOLEAN, probe_ok \in BOOLEAN, available \in Avails :
          /\ (MaybeUnload_Call /\ IdlePrimary /\ lock = Free) => gpc' = "maybe_unload"
          /\ (MaybeUnload_Call /\ lock # Free) => DeclinesUnchanged
          /\ EvictsAndReturnsTrue(cuda, probe_ok, available)]_vars

\* C9 witness: maybe_unload() runs its critical section on an idle Primary
\* model past a timeout of 1, with the cache flag on and the footprint
\* known, so that the probe's answer decides
C9_Witness ==
    /\ gpc = "maybe_unload" /\ lock = Gui /\ IdlePrimary
    /\ auto_cache_ram /\ model_size_bytes > 0 /\ ttl_seconds >= 1

\* the critical section of maybe_unload() demotes: the handle is kept, the
\* tier is Secondary, and True is returned
Demotes(cuda, probe_ok, available) ==
    (MaybeUnload(cuda, probe_ok, available) /\ IdlePrimary
         /\ Feasible(cuda, probe_ok, available)) =>
        /\ model' = model /\ cached_cpu' /\ model_size_bytes' = model_size_bytes
        /\ loading' /\ dpc' = "move" /\ model_to_cpu' = model
        /\ gret' = "True" /\ gpc' = "idle"

\* an acquire() that enters with the model cached in RAM and nothing in
\* flight starts the promotion of that handle instead of raising or loading
StartsPromotion(t) ==
    (pc[t] = "enter" /\ lock = t /\ pc'[t] # "enter"
         /\ model # None /\ cached_cpu /\ ~loading) =>
        pc'[t] = "promote" /\ model_ref'[t] = model /\ loading' /\ nloads' = nloads

\* the acquire() that promoted ends its last critical section with the
\* handle still resident
PromotionEnds(t) ==
    /\ pc[t] \in {"promote_fin", "promote2_fin"}
    /\ lock = t
    /\ pc'[t] # pc[t]
    /\ model = model_ref[t]

IdleSecondary ==
    /\ model # None /\ cached_cpu /\ ~loading
    /\ active_jobs = 0
    /\ ttl_seconds >= 0 /\ idle_seconds >= ttl_seconds

\* the critical section of maybe_unload() evicts the resident model
Evicts ==
    /\ model' = None /\ ~cached_cpu' /\ model_size_bytes' = 0
    /\ model_to_free' = model /\ gpc' = "free_model"
    /\ ~loading' /\ dpc' = dpc

\* C11 (as stated): when maybe_unload() passes all its guards and the
\* resource is cached in RAM (Secondary), it is evicted to Unloaded.
C11_Original ==
    [][\A cuda \in BOOLEAN, probe_ok \in BOOLEAN, available \in Avails :
          (MaybeUnload(cuda, probe_ok, available) /\ IdleSecondary) => Evicts]_vars

\* C11 (amended): a Secondary resource that passes the guards is evicted to
\* Unloaded only when RAM caching is no longer feasible; while it is
\* feasible maybe_unload() returns False and the resource stays Secondary.
C11_SecondaryEvictedWhenNotFeasible ==
    [][\A cuda \in BOOLEAN, probe_ok \in BOOLEAN, available \in Avails :
          (MaybeUnload(cuda, probe_ok, available) /\ IdleSecondary) =>
              IF Feasible(cuda, probe_ok, available)
              THEN DeclinesUnchanged
              ELSE Evicts]_vars

\* C11 witness: maybe_unload() runs its critical section on a Secondary
\* resource past its timeout whose footprint is known, the cache flag on
C11_Witness ==
    /\ gpc = "maybe_unload" /\ lock = Gui /\ IdleSecondary
    /\ auto_cache_ram /\ model_size_bytes > 0 /\ dpc = "none"

\* the critical section of update_config() leaves the resident handle alone
HandleUntouched ==
    UNCHANGED <<model, cached_cpu, model_size_bytes, active_jobs, loading,
                loaded_event, freeq, model_to_free, dem, wrk>>

\* the critical section of update_config() drops the resident handle and
\* hands it to the freeing thread of lines 59-61
DropsHandle ==
    /\ model' = None /\ ~cached_cpu' /\ model_size_bytes' = 0
    /\ freeq' = freeq \cup {model}

\* C13: update_config() that changes only the timeout (same model name, same
\* cache flag) leaves a resident handle, its tier, active_jobs and loading
\* unchanged and starts no teardown.
C13_TimeoutOnlyKeepsHandle ==
    [][\A ttl \in TTLs :
          UpdateConfig(model_name, ttl, auto_cache_ram) =>
              (HandleUntouched /\ gpc' = "idle")]_vars

\* C13 witness: a timeout-only update_config() has just left a resident
\* handle in place while a job is using it
C13_Witness ==
    /\ gpc = "update_config" /\ lock = Gui
    /\ model # None /\ active_jobs > 0 /\ ttl_seconds = 1

Frees(h) ==
    \/ h \in freeq /\ h \notin freeq'
    \/ model_to_free = h /\ model_to_free' = None

\* a tier transfer of handle h has been started and model.to(...) has not
\* returned yet (lines 109-117 for a promotion, 277-279 for a demotion)
InTransfer(h) ==
    \/ dpc = "move" /\ model_to_cpu = h
    \/ \E t \in Workers : pc[t] \in {"promote", "promote2"} /\ model_ref[t] = h

\* C15: no handle is torn down while a construction or tier transition is in
\* flight: freeing a handle dropped by update_config() or force_unload() waits
\* until the transfer of that handle has run to completion.
C15_NoTeardownInFlight ==
    [][\A h \in Handles : Frees(h) => ~InTransfer(h)]_vars

\* force_unload() returns in this step: at once when there was nothing to
\* drop (line 288), or after _free_model (lines 294-295)
ForceUnloadReturns ==
    /\ gret = "force"
    /\ gpc \in {"force_unload", "free_model"}
    /\ gpc' = "idle"

\* C16 (as stated): when force_unload() returns, the manager holds no handle.
C16_Original ==
    [][ForceUnloadReturns => model' = None]_vars

\* C16 (amended): the critical section of force_unload() leaves the manager
\* without a handle whatever the tier, timeout, active_jobs or loading were,
\* hands a dropped handle to _free_model, and changes neither active_jobs nor
\* loading; the handle it dropped has been freed when it returns.
C16_ForceUnloadDrops ==
    [][/\ ForceUnload =>
            /\ model' = None /\ ~cached_cpu' /\ model_size_bytes' = 0
            /\ model # None => (model_to_free' = model /\ gpc' = "free_model")
            /\ UNCHANGED <<active_jobs, loading, ttl_seconds>>
       /\ (ForceUnloadReturns /\ gpc = "free_model") => model_to_free' = None]_vars

\* C16 witness: force_unload() runs its critical section while a job holds
\* the handle, a transfer is in flight and unloading is disabled
C16_Witness ==
    /\ gpc = "force_unload" /\ lock = Gui
    /\ model # None /\ active_jobs > 0 /\ loading /\ ttl_seconds = -1

C18_RetriesAtSecondary ==
    [][\A t \in Workers :
          (Construct(t, TRUE, FALSE) /\ PreferredDevice(TRUE) = "cuda") =>
              pc'[t] # "load_err"]_vars

\* model instances constructed and not yet freed: the installed one, one
\* constructed and about to be installed (line 178), and the dropped ones
\* that _free_model has not processed yet
Resident ==
    ({model, model_to_free} \cup freeq
        \cup {model_ref[t] : t \in {u \in Workers : pc[u] = "load_ok"}}) \ {None}

\* C12: when update_config() changes the model name while a handle is
\* resident, the old handle is freed and at no point are two model instances
\* resident (constructed and not yet freed) together.
C12_OneInstanceResident ==
    Cardinality(Resident) <= 1

\* C19: a job whose acquire() succeeded has called release() exactly once
\* when it ends, also when the inference step raised, and active_jobs is
\* back to 0; a job whose extraction or acquire() failed has not called it.
C19_ReleaseOncePerAcquire ==
    /\ released <= 1
    /\ released = 1 => acquired
    /\ jpc \in {"finished", "failed"} =>
           /\ released = (IF acquired THEN 1 ELSE 0)
           /\ pc[Job] = "idle"
           /\ active_jobs = 0

\* C19 witness: a job has ended in failure because its inference step
\* raised, after a successful acquire()
C19_Witness ==
    jpc = "failed" /\ acquired /\ exc /\ released = 1 /\ active_jobs = 0

\* C20: the job consumes the segment stream returned by model.transcribe
\* only while it holds the handle, before it calls release().
C20_StreamConsumedBeforeRelease ==
    jpc = "collect" => (pc[Job] = "holding" /\ released = 0)

\* the job has emitted its terminal signal
JobEnded == jpc \in {"finished", "failed"}

\* C21: every run() emits exactly one terminal signal, finished or error,
\* never both and never none, whichever step fails, and no progress signal
\* follows the terminal one.
C21_OneTerminalSignal ==
    /\ ~late
    /\ JobEnded => finished_n + error_n = 1
    /\ jpc = "finished" => finished_n = 1
    /\ jpc = "failed" => error_n = 1
    /\ ~JobEnded => finished_n + error_n = 0

\* C21 witness: a job has failed while consuming the segment stream, after
\* acquire(), the inference call and release() had succeeded
C21_Witness ==
    jpc = "failed" /\ error_n = 1 /\ finished_n = 0 /\ acquired /\ ~exc /\ released = 1

\* C22: within one job the progress signals of the segment loop are one per
\* 5% step at most: each is in a higher 5% step than the one before, so
\* their number does not depend on the number of segments.
C22_OneSignalPerStep ==
    \A i, j \in 1..Len(emits) : i < j => emits[i] \div 5 < emits[j] \div 5

\* timeout 0, RAM caching off, a model resident
EvictAtOnce == ttl_seconds = 0 /\ ~auto_cache_ram /\ model # None

\* C23: with timeout 0 and caching disabled, after a load and the matching
\* release, maybe_unload() with active_jobs = 0 frees the model, and the
\* next acquire() constructs a model again and returns that new instance,
\* distinct from every instance constructed before.
C23_EvictThenReload ==
    [][/\ (Job_Sweep /\ EvictAtOnce) =>
              (active_jobs = 0 /\ lock' = Gui /\ gpc' = "maybe_unload")
       /\ \A cuda \in BOOLEAN, probe_ok \in BOOLEAN, available \in Avails :
              (MaybeUnload(cuda, probe_ok, available) /\ EvictAtOnce) => Evicts
       /\ (FreeModel /\ gret # "force") => gret' = "True"
       /\ (Acquire_Enter(Job) /\ model = None) => pc'[Job] = "load"
       /\ \A cuda \in BOOLEAN :
              Construct(Job, cuda, TRUE) =>
                  (model_ref'[Job] > nloads /\ model_ref'[Job] # model_to_free)
       /\ \A size \in Sizes :
              Acquire_LoadDone(Job, size) =>
                  (model' = model_ref[Job] /\ result'[Job] = model' /\ model' = nloads)]_vars

\* C23 witness: with timeout 0 and caching disabled, a second instance has
\* been constructed and returned after the first one was evicted
C23_Witness ==
    /\ ttl_seconds = 0 /\ ~auto_cache_ram
    /\ model = 2 /\ result[Job] = 2 /\ pc[Job] = "holding" /\ jpc = "transcribe"

\* the constructions, promotions and demotions in flight: a worker between
\* the critical section that set loading and the one that clears it, and
\* the demotion thread
InFlightWorkers ==
    {t \in Workers : pc[t] \in {"load", "load_ok", "load_err", "promote",
                                "promote_fin", "promote2", "promote2_fin"}}

InFlightCount == Cardinality(InFlightWorkers) + (IF dpc # "none" THEN 1 ELSE 0)

\* an operation in flight ends in this step
OperationEnds ==
    \/ \E t \in InFlightWorkers : pc'[t] \notin {"load", "load_ok", "load_err",
                                    "promote", "promote_fin", "promote2", "promote2_fin"}
    \/ dpc # "none" /\ dpc' = "none"

\* C24: loading is true exactly while one construction, promotion or
\* demotion is in flight; none starts while loading is set, and the one
\* that set it clears it and signals the waiters when it ends.
C24_LoadingIffInFlight ==
    /\ [](loading <=> InFlightCount = 1)
    /\ [](InFlightCount <= 1)
    /\ [][InFlightCount' > InFlightCount => ~loading]_vars
    /\ [][OperationEnds =>
            (~loading' /\ loaded_event'
             /\ \A u \in Workers : pc[u] = "blocked" => pc'[u] # "blocked")]_vars

\* C24 witness: a demotion is in flight while one acquire() waits for it and
\* a second one is about to enter
C24_Witness ==
    /\ dpc = "move" /\ loading
    /\ \E t, u \in Workers : pc[t] = "blocked" /\ pc[u] = "enter"

\* C25: whenever the manager holds no model, the cached-in-RAM flag is false
\* and the recorded footprint is 0, whatever acquire, release,
\* update_config, maybe_unload and force_unload calls came before.
C25_UnloadedIsClean ==
    model = None => (~cached_cpu /\ model_size_bytes = 0)

\* C25 witness: the manager holds no model again after a cached model with
\* a known footprint was dropped while its promotion was in flight
C25_Witness ==
    /\ model = None /\ nloads >= 1
    /\ \E t \in Workers : pc[t] = "promote_fin" /\ ~promoted[t]

\* C26: the thread that executes a model construction, a tier transfer or a
\* model teardown does not hold the manager's lock while it does, so that
\* release() and the critical sections of acquire() only ever wait for
\* another short critical section.
C26_WorkOutsideLock ==
    /\ \A t \in Workers : pc[t] \in {"load", "promote", "promote2"} => lock # t
    /\ dpc = "move" => lock # Demoter
    /\ gpc = "free_model" => lock # Gui
    /\ lock \in Workers =>
           pc[lock] \in {"enter", "release", "promote_fin", "load_ok", "load_err",
                         "recheck", "promote2_fin"}

\* C26 witness: release() runs its critical section on one thread while a
\* construction is executing on the other
C26_Witness ==
    \E t, u \in Workers : pc[t] = "load" /\ pc[u] = "release" /\ lock = u

\* C27: once no construction or transfer is in flight and update_config()
\* has returned, a model the manager holds was built for the current model
\* name: a load in flight for the old name leaves no old-name model
\* installed.
C27_ResidentMatchesName ==
    (InFlightCount = 0 /\ gpc = "idle" /\ model # None) => resident_name = model_name

\* acquire() of thread t raises the RuntimeError of lines 194 and 213
RaisesCancelled(t) == result[t] # Cancelled /\ result'[t] = Cancelled

\* C28: acquire() raises only when a model construction failed: the
\* RuntimeError after the wait is raised only to a caller that waited for a
\* construction that failed, never because of a concurrent demotion,
\* promotion, eviction, update_config() or force_unload().
C28_RaisesOnlyOnFailedLoad ==
    [][\A t \in Workers : RaisesCancelled(t) => attempt[t] = AttFailed]_vars

\* every acquire() call has returned or raised
NoAcquireRunning == \A t \in Workers : pc[t] \in {"idle", "holding", "release"}

\* C29: when force_unload() was called (at shutdown) while a load was in
\* flight and no acquire() is started afterwards, the manager holds no model
\* once force_unload() has returned and the load has completed.
C29_UnloadedAfterShutdown ==
    (closing /\ gpc = "idle" /\ NoAcquireRunning /\ ~loading) => model = None

\* C30: with every construction and tier transfer terminating, every
\* acquire() call eventually returns a handle or raises; no caller stays
\* blocked on the completion event for ever.
InAcquire(t) ==
    pc[t] \in {"enter", "promote", "promote_fin", "load", "load_ok", "load_err",
               "wait", "blocked", "recheck", "promote2", "promote2_fin"}

AcquireEnded(t) ==
    \/ pc[t] = "holding" /\ result[t] \in Handles
    \/ pc[t] = "idle" /\ result[t] \in {Raised, Cancelled}

C30_AcquireTerminates == \A t \in Workers : InAcquire(t) ~> AcquireEnded(t)

\* a caller blocked on the completion event
C30_Witness == \E t \in Workers : pc[t] = "blocked"

====
